---- MODULE Spec2Model ----
(***************************************************************************)
(* FACEIT team statistics endpoint (handler / getTeamStats and helpers).   *)
(*                                                                         *)
(* One request is one sequential run: team lookup, per-player history      *)
(* pagination, series reconstruction, team filter, map statistics, report. *)
(* Every await on the external service is a step of the model; what the    *)
(* service answers is chosen nondeterministically at that step.            *)
(***************************************************************************)
EXTENDS Integers, Sequences, FiniteSets, TLC

(***************************************************************************)
(* Bounds of the model.                                                    *)
(***************************************************************************)
\* Longest history page the service returns.
MaxPageLen == 3
\* Non-empty history pages per player; a request past them is empty or fails.
MaxPages == 2
\* Longest list of member ids in a series' detail record.
MaxMembers == 3
\* Matches in the series lists the filter and the composer are tried on alone.
MaxInputMatches == 3

\* Longest list of kept series given to the result composer.
MaxKeptSeries == 11

(***************************************************************************)
(* Program constants.                                                      *)
(***************************************************************************)
limit == 100
MinTeamPlayers == 5
RecentLimit == 10
WindowSeconds == 90 * 24 * 60 * 60

Day == 24 * 60 * 60
\* Date.now() / 1000 at the start of the first run (2025-11-04T00:00:00Z).
NowSeconds == 20396 * Day
\* The cutoff of a run that starts then; the service's matches are dated
\* around it.
FirstCutoff == NowSeconds - WindowSeconds

Has(r, f) == f \in DOMAIN r

Range(s) == {s[i] : i \in 1..Len(s)}

\* Sequences without repetition over S, of length at most n.
SeqsNoDup(S, n) ==
  {s \in UNION {[1..k -> S] : k \in 0..n} :
     \A i, j \in 1..Len(s) : i # j => s[i] # s[j]}

(***************************************************************************)
(* Dates.  new Date(seconds * 1000).toISOString() is written with its      *)
(* seconds and its milliseconds apart, as the ISO string holds them;       *)
(* new Date(a) - new Date(b) is taken from both.                           *)
(***************************************************************************)
toISOString(seconds) == [sec |-> seconds, ms |-> 0]

\* new Date(a) - new Date(b) < 0
DateBefore(a, b) == a.sec < b.sec \/ (a.sec = b.sec /\ a.ms < b.ms)

(***************************************************************************)
(* The external service's data: the roster and the matches it knows.       *)
(***************************************************************************)
TeamData ==
  [team_id |-> "team1", name |-> "Team One", avatar |-> "avatar.png",
   members |-> << [user_id |-> "u1", nickname |-> "n1"],
                  [user_id |-> "u2", nickname |-> "n2"],
                  [user_id |-> "u3", nickname |-> "n3"],
                  [user_id |-> "u4", nickname |-> "n4"],
                  [user_id |-> "u5", nickname |-> "n5"] >>]

MatchIds == {"m1", "m2", "m3", "m4"}
SeriesIds == {"s1", "s2"}

\* m1, m2 inside the window, m3 exactly at the cutoff, m4 just before it.
FinishedAt(m) ==
  CASE m = "m1" -> FirstCutoff + 2 * Day
    [] m = "m2" -> FirstCutoff + Day
    [] m = "m3" -> FirstCutoff
    [] OTHER    -> FirstCutoff - 1

Nick(n) == [nickname |-> n]

\* m1 and m2 hold five roster nicknames only together (and on both sides);
\* m3 holds all five; the second team of m3 has no player list.
Teams(m) ==
  CASE m = "m1" -> << [team_id |-> "t1", players |-> <<Nick("n1"), Nick("n2"), Nick("n3")>>],
                      [team_id |-> "t2", players |-> <<Nick("x1"), Nick("x2")>>] >>
    [] m = "m2" -> << [team_id |-> "t1", players |-> <<Nick("n3"), Nick("n4"), Nick("x1")>>],
                      [team_id |-> "t2", players |-> <<Nick("n5"), Nick("x2")>>] >>
    [] m = "m3" -> << [team_id |-> "t1", players |-> <<Nick("n1"), Nick("n2"), Nick("n3"),
                                                        Nick("n4"), Nick("n5")>>],
                      [team_id |-> "t2"] >>
    [] OTHER    -> << [team_id |-> "t1", players |-> <<Nick("n1"), Nick("x1")>>] >>

\* m2 has no score, m3 no result payload at all, m4 a payload without a winner.
Results(m) ==
  CASE m = "m1" -> [winner |-> "faction1", score |-> [faction1 |-> 13, faction2 |-> 7]]
    [] m = "m2" -> [winner |-> "faction2"]
    [] m = "m4" -> [score |-> [faction1 |-> 0, faction2 |-> 0]]
    [] OTHER    -> [winner |-> "faction1", score |-> [faction1 |-> 13, faction2 |-> 11]]

Voting(m) ==
  CASE m = "m1" -> [map |-> [pick |-> <<"de_dust2">>]]
    [] m = "m2" -> [map |-> [pick |-> <<>>, entities |-> <<[name |-> "de_mirage"]>>]]
    [] m = "m3" -> [map |-> [entities |-> <<[guid |-> <<"d", "e", "_", "n", "u", "k", "e", "_", "7">>]>>]]
    [] OTHER    -> [map |-> [pick |-> <<"de_dust2">>]]

\* An item of a history page; m3 carries no results field.
HistoryItem(m) ==
  IF m = "m3"
  THEN [match_id |-> m, finished_at |-> FinishedAt(m), teams |-> Teams(m),
        voting |-> Voting(m)]
  ELSE [match_id |-> m, finished_at |-> FinishedAt(m), teams |-> Teams(m),
        results |-> Results(m), voting |-> Voting(m)]

\* The body of GET /matches/{id} for a match, with its parent series if any.
MatchDetails(m, parent) ==
  LET base == IF m = "m3"
              THEN [match_id |-> m, finished_at |-> FinishedAt(m), voting |-> Voting(m)]
              ELSE [match_id |-> m, finished_at |-> FinishedAt(m), voting |-> Voting(m),
                    results |-> Results(m)]
  IN IF parent = "" THEN base
     ELSE [f \in DOMAIN base \cup {"parent_match_id"} |->
             IF f = "parent_match_id" THEN parent ELSE base[f]]

(***************************************************************************)
(* String helpers used by getMapName: a guid is a sequence of characters.  *)
(***************************************************************************)
RECURSIVE Concat(_)
Concat(cs) == IF cs = <<>> THEN "" ELSE Head(cs) \o Concat(Tail(cs))

\* guid.includes('de_')
IncludesDe(cs) ==
  \E i \in 1..Len(cs) - 2 : cs[i] = "d" /\ cs[i + 1] = "e" /\ cs[i + 2] = "_"

\* guid.split('_'): the pieces between underscores, as character sequences.
RECURSIVE Split(_, _)
Split(cs, cur) ==
  IF cs = <<>> THEN <<cur>>
  ELSE IF Head(cs) = "_" THEN <<cur>> \o Split(Tail(cs), <<>>)
  ELSE Split(Tail(cs), Append(cur, Head(cs)))

\* pieces.slice(0, 2).join('_')
JoinFirstTwo(pieces) ==
  IF Len(pieces) = 1 THEN Concat(pieces[1])
  ELSE Concat(pieces[1]) \o "_" \o Concat(pieces[2])

\* Mutant of getMapName: the map entity's name is looked at before the pick.
getMapName_NameFirst(matchData) ==
  LET map == IF Has(matchData, "voting") /\ Has(matchData.voting, "map")
             THEN matchData.voting.map ELSE [none |-> TRUE]
      hasPick == Has(map, "pick") /\ Len(map.pick) >= 1 /\ map.pick[1] # ""
      hasEntity == Has(map, "entities") /\ Len(map.entities) >= 1
      hasName == hasEntity /\ Has(map.entities[1], "name") /\ map.entities[1].name # ""
  IN IF hasName THEN map.entities[1].name
     ELSE IF hasPick THEN map.pick[1]
     ELSE "Unknown"

getMapName(matchData) ==
  LET map == IF Has(matchData, "voting") /\ Has(matchData.voting, "map")
             THEN matchData.voting.map ELSE [none |-> TRUE]
      hasPick == Has(map, "pick") /\ Len(map.pick) >= 1 /\ map.pick[1] # ""
      hasEntity == Has(map, "entities") /\ Len(map.entities) >= 1
      hasName == hasEntity /\ Has(map.entities[1], "name") /\ map.entities[1].name # ""
      hasGuid == hasEntity /\ Has(map.entities[1], "guid") /\ map.entities[1].guid # <<>>
  IN IF hasPick THEN map.pick[1]
     ELSE IF hasName THEN map.entities[1].name
     ELSE IF hasGuid
          THEN IF IncludesDe(map.entities[1].guid)
               THEN JoinFirstTwo(Split(map.entities[1].guid, <<>>))
               ELSE Concat(map.entities[1].guid)
     ELSE "Unknown"

getMatchResult(match) ==
  IF Has(match, "results") /\ Has(match.results, "winner") /\ match.results.winner # ""
  THEN match.results.winner
  ELSE "Unknown"

\* match.results?.score || {}
ScoreOf(match) ==
  IF Has(match, "results") /\ Has(match.results, "score") THEN match.results.score
  ELSE <<>>

(***************************************************************************)
(* State of one request.                                                   *)
(***************************************************************************)
VARIABLES
  pc,              \* where the run stands (the await it is suspended at)
  response,        \* what the handler has answered: res.status(..).json(..)
  players,         \* getTeamStats: players
  pIdx,            \* index of `player` in the for loop over players
  offset,          \* getTeamStats: offset
  hasMoreMatches,  \* getTeamStats: hasMoreMatches
  matchesData,     \* body of the history page being processed
  allMatches,      \* getTeamStats: allMatches (a Map, in insertion order)
  gIdx,            \* groupMatchesIntoSeries: index of `match` in matches
  seriesMap,       \* groupMatchesIntoSeries: seriesMap (a Map, in insertion order)
  frame,           \* findSeriesMatches: seriesId, member ids left, seriesMatches
  teamSeries,      \* getTeamStats: teamSeries
  teamResponse,    \* getTeamStats: teamResponse (its status)
  issued,          \* kinds of request sent to the service so far
  failedNow,       \* ids whose detail request failed in the current loop iteration
  failedIds,       \* ids whose detail request has failed in this run
  session          \* the service's data, which run this is and when it started

vars == <<pc, response, players, pIdx, offset, hasMoreMatches, matchesData,
          allMatches, gIdx, seriesMap, frame, teamSeries, teamResponse, issued,
          failedNow, failedIds, session>>

\* A service that may answer each request with anything it can answer.
AnyUpstream == [any |-> TRUE]

\* The first run of a session, started at NowSeconds.
FirstRun(upstream) ==
  [upstream |-> upstream, run |-> 1, started |-> 0, first |-> [status |-> 0]]

\* Math.floor(Date.now() / 1000) when getTeamStats computes the cutoff
RunStart == NowSeconds + session.started

\* threeMonthsAgo = Math.floor(Date.now() / 1000) - (90 * 24 * 60 * 60)
threeMonthsAgo == RunStart - WindowSeconds

NoResponse == [status |-> 0]
NoData == [none |-> TRUE]
NoFrame == [seriesId |-> "", keys |-> <<>>, seriesMatches |-> <<>>]
NoTeamResponse == [status |-> 0]

Init ==
  /\ pc = "start"
  /\ response = NoResponse
  /\ players = <<>>
  /\ pIdx = 1
  /\ offset = 0
  /\ hasMoreMatches = TRUE
  /\ matchesData = NoData
  /\ allMatches = <<>>
  /\ gIdx = 1
  /\ seriesMap = <<>>
  /\ frame = NoFrame
  /\ teamSeries = <<>>
  /\ teamResponse = NoTeamResponse
  /\ issued = {}
  /\ failedNow = {}
  /\ failedIds = {}
  /\ session = FirstRun(AnyUpstream)

(***************************************************************************)
(* The service as an unchanged data set: every request has one answer.     *)
(***************************************************************************)
IsFixed == ~Has(session.upstream, "any")

\* The answer to a history page request: a network failure, a non-2xx
\* response, or a body.
Answer(kind, body) == [kind |-> kind, body |-> body]

\* The page of a player's history at an offset; past the last page the
\* service answers with no items.
FixedPage(upstream, playerId, off) ==
  LET pages == upstream.history[playerId]
      n == (off \div limit) + 1
  IN IF n <= Len(pages) THEN pages[n] ELSE Answer("ok", [items |-> <<>>])

\* Mutant of TeamAllowed: the service's answer to the team lookup changes
\* between requests.
TeamAllowed_Changing(status) == TRUE

TeamAllowed(status) == IsFixed => session.upstream.team = status

HistoryAllowed(kind, body) ==
  IsFixed => FixedPage(session.upstream, players[pIdx].id, offset) = Answer(kind, body)

DetailAllowed(id, details) == IsFixed => session.upstream.details[id] = details

(***************************************************************************)
(* handler: the catch block around getTeamStats.                           *)
(***************************************************************************)
ErrorPayload(message) ==
  [status |-> 500,
   body |-> [error |-> "Failed to fetch team statistics", details |-> message]]

\* What fetch() rejects with on a network failure.
NetworkError == [message |-> "fetch failed"]

\* new Error(`FACEIT API error: ${teamResponse.status}`)
TeamLookupError(status) == [message |-> "FACEIT API error: ", status |-> status]

\* Mutant of IsOk: the upper end of the 2xx range is not tested.
IsOk_NoUpperBound(status) == status >= 200

\* teamResponse.ok, matchesResponse.ok
IsOk(status) == status >= 200 /\ status <= 299

TeamStatuses == {200, 404, 503}

\* teamData.members.map(member => ({id, nickname}))
PlayersOf(teamData) ==
  [i \in 1..Len(teamData.members) |->
     [id |-> teamData.members[i].user_id, nickname |-> teamData.members[i].nickname]]

teamPlayerNames == {players[i].nickname : i \in 1..Len(players)}

(***************************************************************************)
(* getTeamStats, step 1-2: the team lookup.                                *)
(***************************************************************************)
TeamLookup ==
  /\ pc = "start"
  /\ issued' = issued \cup {"team"}
  /\ \/ /\ ~IsFixed
        /\ pc' = "done"
        /\ response' = ErrorPayload(NetworkError)
        /\ UNCHANGED <<players, teamResponse>>
     \/ \E status \in TeamStatuses :
          /\ TeamAllowed(status)
          /\ teamResponse' = [status |-> status]
          /\ IF ~IsOk(status)
             THEN /\ pc' = "done"
                  /\ response' = ErrorPayload(TeamLookupError(status))
                  /\ UNCHANGED players
             ELSE /\ pc' = "history"
                  /\ players' = PlayersOf(TeamData)
                  /\ UNCHANGED response
  /\ UNCHANGED <<pIdx, offset, hasMoreMatches, matchesData, allMatches, gIdx,
                 seriesMap, frame, teamSeries, failedNow>>
  /\ UNCHANGED <<failedIds, session>>

(***************************************************************************)
(* getTeamStats, step 3: history pagination per player.                    *)
(***************************************************************************)
\* Bodies the service may answer a history page request with.  Offsets past
\* the player's last page hold nothing.
HistoryBodies(off) ==
  IF off >= MaxPages * limit
  THEN {[items |-> <<>>], [end |-> 0]}
  ELSE LET pages == {[i \in 1..Len(ids) |-> HistoryItem(ids[i])] :
                       ids \in SeqsNoDup(MatchIds, MaxPageLen)}
           ends == {limit * k : k \in 1..MaxPages + 1}
       IN {[items |-> p] : p \in pages}
          \cup {[items |-> p, end |-> e] : p \in pages, e \in ends}
          \cup {[end |-> 0]}

\* Mutant of IsTooOld: the window is taken twice as long.
IsTooOld_DoubleWindow(match) == match.finished_at < threeMonthsAgo - WindowSeconds

\* matchTimestamp < threeMonthsAgo
IsTooOld(match) == match.finished_at < threeMonthsAgo

HasKey(map, id) == \E i \in 1..Len(map) : map[i].id = id

\* The entry allMatches.set(match.match_id, {...}) stores.
StoredMatch(match) ==
  LET base == [id |-> match.match_id,
               date |-> toISOString(match.finished_at),
               finished_at |-> match.finished_at,
               teams |-> match.teams,
               voting |-> match.voting]
  IN IF Has(match, "results")
     THEN [f \in DOMAIN base \cup {"results"} |->
             IF f = "results" THEN match.results ELSE base[f]]
     ELSE base

\* if (!allMatches.has(match.match_id)) allMatches.set(...)
InsertMatch(map, match) ==
  IF HasKey(map, match.match_id) THEN map ELSE Append(map, StoredMatch(match))

\* Mutant of CollectPage: an old item is skipped and the loop goes on.
RECURSIVE CollectPage_SkipOld(_, _)
CollectPage_SkipOld(items, map) ==
  IF items = <<>> THEN map
  ELSE IF IsTooOld(Head(items)) THEN CollectPage_SkipOld(Tail(items), map)
  ELSE CollectPage_SkipOld(Tail(items), InsertMatch(map, Head(items)))

\* The for loop over matchesData.items, which breaks at the first old item.
RECURSIVE CollectPage(_, _)
CollectPage(items, map) ==
  IF items = <<>> THEN map
  ELSE IF IsTooOld(Head(items)) THEN map
  ELSE CollectPage(Tail(items), InsertMatch(map, Head(items)))

HasOldItem(items) == \E i \in 1..Len(items) : IsTooOld(items[i])

ItemsOf(body) == IF Has(body, "items") THEN body.items ELSE <<>>

\* offset >= matchesData.end (false when the body reports no end)
EndReached(off, body) == Has(body, "end") /\ off >= body.end

\* The call of groupMatchesIntoSeries: control stops at the first detail
\* request, or falls through to the filter when there is no match.
EnterGrouping(matches) == IF Len(matches) = 0 THEN "filter" ELSE "group"

\* Mutant of NextPlayer: the for loop does not move on to the next player.
NextPlayer_SamePlayer ==
  /\ pIdx' = pIdx
  /\ offset' = 0
  /\ hasMoreMatches' = TRUE
  /\ matchesData' = NoData
  /\ pc' = "history"

\* Leaving the while loop: the next player, or the end of the for loop.
NextPlayer ==
  /\ pIdx' = pIdx + 1
  /\ offset' = 0
  /\ hasMoreMatches' = TRUE
  /\ matchesData' = NoData
  /\ pc' = IF pIdx + 1 > Len(players) THEN EnterGrouping(allMatches) ELSE "history"

\* await fetch(.../history?offset=..&limit=..) and await matchesResponse.json()
HistoryRequest ==
  /\ pc = "history"
  /\ issued' = issued \cup {"history"}
  /\ \/ /\ HistoryAllowed("network", NoData)
        /\ pc' = "done"
        /\ response' = ErrorPayload(NetworkError)
        /\ UNCHANGED <<pIdx, offset, hasMoreMatches, matchesData, allMatches>>
     \/ /\ HistoryAllowed("http", NoData)
        /\ NextPlayer
        /\ UNCHANGED <<response, allMatches>>
     \/ \E body \in HistoryBodies(offset) :
          /\ HistoryAllowed("ok", body)
          /\ matchesData' = body
          /\ pc' = "page"
          /\ UNCHANGED <<response, pIdx, offset, hasMoreMatches, allMatches>>
  /\ UNCHANGED <<players, gIdx, seriesMap, frame, teamSeries, teamResponse, failedNow>>
  /\ UNCHANGED <<failedIds, session>>

\* From the emptiness test to the delay at the end of the loop body.
HistoryProcess ==
  /\ pc = "page"
  /\ IF Len(ItemsOf(matchesData)) = 0
     THEN /\ allMatches' = allMatches
          /\ NextPlayer
     ELSE /\ allMatches' = CollectPage(matchesData.items, allMatches)
          /\ offset' = offset + limit
          /\ hasMoreMatches' = (~HasOldItem(matchesData.items)
                                /\ ~EndReached(offset + limit, matchesData))
          /\ pc' = "hdelay"
          /\ UNCHANGED <<pIdx, matchesData>>
  /\ UNCHANGED <<response, players, gIdx, seriesMap, frame, teamSeries, teamResponse,
                 issued, failedNow>>
  /\ UNCHANGED <<failedIds, session>>

\* The 100 ms delay has passed: the while condition is tested again.
HistoryDelay ==
  /\ pc = "hdelay"
  /\ IF hasMoreMatches
     THEN /\ pc' = "history"
          /\ matchesData' = NoData
          /\ UNCHANGED <<pIdx, offset, hasMoreMatches>>
     ELSE NextPlayer
  /\ UNCHANGED <<response, players, allMatches, gIdx, seriesMap, frame, teamSeries,
                 teamResponse, issued, failedNow>>
  /\ UNCHANGED <<failedIds, session>>

(***************************************************************************)
(* groupMatchesIntoSeries and findSeriesMatches.                           *)
(***************************************************************************)
\* What getMatchDetails returns when the response is not ok or fetch throws.
Null == [null |-> TRUE]
IsNull(details) == Has(details, "null")

\* seriesMap.set(key, value): a new key goes last, a known key keeps its place.
MapSet(map, key, value) ==
  IF HasKey(map, key)
  THEN [i \in 1..Len(map) |-> IF map[i].id = key THEN value ELSE map[i]]
  ELSE Append(map, value)

\* [...seriesMap.values()].some(series => series.matches.some(m => m.id === id))
InSomeSeries(map, id) ==
  \E i \in 1..Len(map) : \E j \in 1..Len(map[i].matches) : map[i].matches[j].id = id

\* The index of the next match of the for loop that is not skipped by `continue`.
RECURSIVE NextUnplaced(_, _, _)
NextUnplaced(matches, map, k) ==
  IF k > Len(matches) THEN k
  ELSE IF InSomeSeries(map, matches[k].id) THEN NextUnplaced(matches, map, k + 1)
  ELSE k

\* The single-match series built from a collected match.
Standalone(match) ==
  [id |-> match.id,
   date |-> match.date,
   matches |-> << [id |-> match.id,
                   date |-> match.date,
                   map |-> getMapName(match),
                   result |-> getMatchResult(match),
                   score |-> ScoreOf(match)] >>]

\* The entry findSeriesMatches pushes for a member match.
MemberSummary(matchId, matchDetails) ==
  [id |-> matchId,
   date |-> toISOString(matchDetails.finished_at),
   map |-> getMapName(matchDetails),
   result |-> getMatchResult(matchDetails),
   score |-> ScoreOf(matchDetails)]

\* Array.prototype.sort((a, b) => new Date(a.date) - new Date(b.date)): stable.
RECURSIVE InsertByDate(_, _)
InsertByDate(sorted, x) ==
  IF sorted = <<>> THEN <<x>>
  ELSE IF DateBefore(x.date, Head(sorted).date) THEN <<x>> \o sorted
  ELSE <<Head(sorted)>> \o InsertByDate(Tail(sorted), x)

\* Mutant of SortByDate: the matches stay in the order the series lists them.
SortByDate_AsListed(s) == s

RECURSIVE SortByDate(_)
SortByDate(s) ==
  IF s = <<>> THEN <<>>
  ELSE InsertByDate(SortByDate(SubSeq(s, 1, Len(s) - 1)), s[Len(s)])

\* availableMatchIds
matchIdsToCheck == {allMatches[i].id : i \in 1..Len(allMatches)}

\* The member ids still to visit, up to the next one that is available.
RECURSIVE SkipUnavailable(_)
SkipUnavailable(keys) ==
  IF keys = <<>> THEN <<>>
  ELSE IF Head(keys) \in matchIdsToCheck THEN keys
  ELSE SkipUnavailable(Tail(keys))

\* What groupMatchesIntoSeries does with the list findSeriesMatches returns.
StoreSeries(map, seriesId, seriesMatches) ==
  IF Len(seriesMatches) > 0
  THEN MapSet(map, seriesId, [id |-> seriesId,
                              date |-> seriesMatches[1].date,
                              matches |-> seriesMatches])
  ELSE map

\* findSeriesMatches returns (sorted) and control reaches the 50 ms delay.
ReturnSeries(seriesMatches) ==
  /\ seriesMap' = StoreSeries(seriesMap, frame.seriesId, SortByDate(seriesMatches))
  /\ frame' = NoFrame
  /\ pc' = "gdelay"

\* The ids whose detail request has failed, after the answer to one for `id`.
Failed(failed, id, details) == IF IsNull(details) THEN failed \cup {id} ELSE failed

\* Bodies of GET /matches/{id} for a collected match.
OwnDetailBodies(id) == {MatchDetails(id, parent) : parent \in {""} \cup SeriesIds}

\* Bodies of GET /matches/{seriesId}: with member ids, or without a matches field.
SeriesDetailBodies(seriesId) ==
  {[match_id |-> seriesId]}
  \cup {[match_id |-> seriesId, matches |-> keys] : keys \in SeqsNoDup(MatchIds, MaxMembers)}

\* await getMatchDetails(match.id): the match is standalone, or has a parent.
GetMatchDetails ==
  /\ pc = "group"
  /\ issued' = issued \cup {"detail"}
  /\ LET match == allMatches[gIdx] IN
     \E matchDetails \in {Null} \cup OwnDetailBodies(match.id) :
       /\ DetailAllowed(match.id, matchDetails)
       /\ failedNow' = Failed(failedNow, match.id, matchDetails)
       /\ failedIds' = Failed(failedIds, match.id, matchDetails)
       /\ IF ~IsNull(matchDetails) /\ Has(matchDetails, "parent_match_id")
          THEN IF ~HasKey(seriesMap, matchDetails.parent_match_id)
               THEN /\ frame' = [seriesId |-> matchDetails.parent_match_id,
                                 keys |-> <<>>, seriesMatches |-> <<>>]
                    /\ pc' = "series"
                    /\ UNCHANGED seriesMap
               ELSE /\ pc' = "gdelay"
                    /\ UNCHANGED <<seriesMap, frame>>
          ELSE /\ seriesMap' = MapSet(seriesMap, match.id, Standalone(match))
               /\ pc' = "gdelay"
               /\ UNCHANGED frame
  /\ UNCHANGED <<response, players, pIdx, offset, hasMoreMatches, matchesData,
                 allMatches, gIdx, teamSeries, teamResponse>>
  /\ UNCHANGED session

\* findSeriesMatches: await getMatchDetails(seriesId)
GetSeriesDetails ==
  /\ pc = "series"
  /\ issued' = issued \cup {"detail"}
  /\ \E seriesDetails \in {Null} \cup SeriesDetailBodies(frame.seriesId) :
       /\ DetailAllowed(frame.seriesId, seriesDetails)
       /\ failedNow' = Failed(failedNow, frame.seriesId, seriesDetails)
       /\ failedIds' = Failed(failedIds, frame.seriesId, seriesDetails)
       /\ LET keys == IF ~IsNull(seriesDetails) /\ Has(seriesDetails, "matches")
                      THEN SkipUnavailable(seriesDetails.matches) ELSE <<>>
          IN IF keys = <<>>
             THEN ReturnSeries(<<>>)
             ELSE /\ frame' = [frame EXCEPT !.keys = keys]
                  /\ pc' = "member"
                  /\ UNCHANGED seriesMap
  /\ UNCHANGED <<response, players, pIdx, offset, hasMoreMatches, matchesData,
                 allMatches, gIdx, teamSeries, teamResponse>>
  /\ UNCHANGED session

\* findSeriesMatches: await getMatchDetails(matchId) for an available member
GetMemberDetails ==
  /\ pc = "member"
  /\ issued' = issued \cup {"detail"}
  /\ LET matchId == Head(frame.keys) IN
     \E matchDetails \in {Null} \cup OwnDetailBodies(matchId) :
       /\ DetailAllowed(matchId, matchDetails)
       /\ failedNow' = Failed(failedNow, matchId, matchDetails)
       /\ failedIds' = Failed(failedIds, matchId, matchDetails)
       /\ LET pushed == IF IsNull(matchDetails) THEN frame.seriesMatches
                        ELSE Append(frame.seriesMatches,
                                    MemberSummary(matchId, matchDetails))
              rest == SkipUnavailable(Tail(frame.keys))
          IN IF rest = <<>>
             THEN ReturnSeries(pushed)
             ELSE /\ frame' = [frame EXCEPT !.keys = rest, !.seriesMatches = pushed]
                  /\ pc' = "member"
                  /\ UNCHANGED seriesMap
  /\ UNCHANGED <<response, players, pIdx, offset, hasMoreMatches, matchesData,
                 allMatches, gIdx, teamSeries, teamResponse>>
  /\ UNCHANGED session

\* The 50 ms delay has passed: the for loop goes on with the next match that
\* is in no series yet, or groupMatchesIntoSeries returns.
GroupDelay ==
  /\ pc = "gdelay"
  /\ gIdx' = NextUnplaced(allMatches, seriesMap, gIdx + 1)
  /\ pc' = IF gIdx' > Len(allMatches) THEN "filter" ELSE "group"
  /\ failedNow' = {}
  /\ UNCHANGED <<response, players, pIdx, offset, hasMoreMatches, matchesData,
                 allMatches, seriesMap, frame, teamSeries, teamResponse, issued>>
  /\ UNCHANGED <<failedIds, session>>

(***************************************************************************)
(* Team filter.                                                            *)
(***************************************************************************)
\* team.players || [] of one team, as {nickname, team} entries
TeamPlayers(team) ==
  IF Has(team, "players")
  THEN [i \in 1..Len(team.players) |->
          [nickname |-> team.players[i].nickname, team |-> team.team_id]]
  ELSE <<>>

RECURSIVE FlattenTeams(_)
FlattenTeams(teams) ==
  IF teams = <<>> THEN <<>>
  ELSE TeamPlayers(Head(teams)) \o FlattenTeams(Tail(teams))

getPlayersFromMatch(match) ==
  IF Has(match, "teams") THEN FlattenTeams(match.teams) ELSE <<>>

\* playersInSeries.add(nickname) for the roster nicknames of one player list
RECURSIVE AddOurPlayers(_, _, _)
AddOurPlayers(found, list, names) ==
  IF list = <<>> THEN found
  ELSE LET nick == Head(list).nickname
           next == IF nick \in names /\ nick \notin Range(found)
                   THEN Append(found, nick) ELSE found
       IN AddOurPlayers(next, Tail(list), names)

RECURSIVE OurPlayersOfMatches(_, _, _)
OurPlayersOfMatches(found, matches, names) ==
  IF matches = <<>> THEN found
  ELSE OurPlayersOfMatches(AddOurPlayers(found, getPlayersFromMatch(Head(matches)), names),
                           Tail(matches), names)

\* Array.from(playersInSeries): the nicknames in the order they were first met
getOurPlayersInSeries(series, names) == OurPlayersOfMatches(<<>>, series.matches, names)

\* Mutant of IsTeamSeries: four roster players are enough.
IsTeamSeries_AtLeastFour(ourPlayersInSeries) == Len(ourPlayersInSeries) >= MinTeamPlayers - 1

\* ourPlayersInSeries.length >= 5
IsTeamSeries(ourPlayersInSeries) == Len(ourPlayersInSeries) >= MinTeamPlayers

\* {...series, ourPlayers, totalOurPlayers}
KeptSeries(series, ourPlayersInSeries) ==
  [id |-> series.id, date |-> series.date, matches |-> series.matches,
   ourPlayers |-> ourPlayersInSeries,
   totalOurPlayers |-> Len(ourPlayersInSeries)]

RECURSIVE FilterTeamSeries(_, _)
FilterTeamSeries(seriesMatches, names) ==
  IF seriesMatches = <<>> THEN <<>>
  ELSE LET series == Head(seriesMatches)
           our == getOurPlayersInSeries(series, names)
           rest == FilterTeamSeries(Tail(seriesMatches), names)
       IN IF IsTeamSeries(our) THEN <<KeptSeries(series, our)>> \o rest ELSE rest

(***************************************************************************)
(* Map statistics.                                                         *)
(***************************************************************************)
\* Mutant of WinRate: the percentage is truncated instead of rounded.
WinRate_Truncated(wins, totalMatches) == (100 * wins) \div totalMatches

\* Math.round((wins / totalMatches) * 100), halves rounded up
WinRate(wins, totalMatches) ==
  IF totalMatches > 0 THEN (200 * wins + totalMatches) \div (2 * totalMatches) ELSE 0

IndexOfMap(mapStats, mapName) ==
  CHOOSE i \in 1..Len(mapStats) : mapStats[i].map = mapName

\* The body of the inner loop for one match.
CountMatch(mapStats, match) ==
  LET known == \E i \in 1..Len(mapStats) : mapStats[i].map = match.map
      table == IF known THEN mapStats
               ELSE Append(mapStats, [map |-> match.map, totalMatches |-> 0,
                                      wins |-> 0, losses |-> 0, winRate |-> 0])
      k == IndexOfMap(table, match.map)
      old == table[k]
      total == old.totalMatches + 1
      wins == IF match.result = "win" THEN old.wins + 1 ELSE old.wins
      losses == IF match.result # "win" /\ match.result = "loss"
                THEN old.losses + 1 ELSE old.losses
  IN [table EXCEPT ![k] = [map |-> old.map, totalMatches |-> total, wins |-> wins,
                           losses |-> losses, winRate |-> WinRate(wins, total)]]

RECURSIVE CountMatches(_, _)
CountMatches(mapStats, matches) ==
  IF matches = <<>> THEN mapStats
  ELSE CountMatches(CountMatch(mapStats, Head(matches)), Tail(matches))

RECURSIVE CountSeries(_, _)
CountSeries(mapStats, series) ==
  IF series = <<>> THEN mapStats
  ELSE CountSeries(CountMatches(mapStats, Head(series).matches), Tail(series))

\* Mutant of InsertByTotal: an entry is put before the entries with the same
\* totalMatches.
RECURSIVE InsertByTotal_TiesFirst(_, _)
InsertByTotal_TiesFirst(sorted, x) ==
  IF sorted = <<>> THEN <<x>>
  ELSE IF x.totalMatches >= Head(sorted).totalMatches THEN <<x>> \o sorted
  ELSE <<Head(sorted)>> \o InsertByTotal_TiesFirst(Tail(sorted), x)

\* sort((a, b) => b.totalMatches - a.totalMatches): stable
RECURSIVE InsertByTotal(_, _)
InsertByTotal(sorted, x) ==
  IF sorted = <<>> THEN <<x>>
  ELSE IF x.totalMatches > Head(sorted).totalMatches THEN <<x>> \o sorted
  ELSE <<Head(sorted)>> \o InsertByTotal(Tail(sorted), x)

RECURSIVE SortByTotal(_)
SortByTotal(s) ==
  IF s = <<>> THEN <<>>
  ELSE InsertByTotal(SortByTotal(SubSeq(s, 1, Len(s) - 1)), s[Len(s)])

\* Mutant of DropUnknown: nothing is filtered out.
DropUnknown_KeepAll(s) == s

\* filter(map => map.map !== 'Unknown')
RECURSIVE DropUnknown(_)
DropUnknown(s) ==
  IF s = <<>> THEN <<>>
  ELSE IF Head(s).map # "Unknown" THEN <<Head(s)>> \o DropUnknown(Tail(s))
  ELSE DropUnknown(Tail(s))

analyzeMapStatisticsFromSeries(series) ==
  DropUnknown(SortByTotal(CountSeries(<<>>, series)))

(***************************************************************************)
(* Result composer.                                                        *)
(***************************************************************************)
CountResult(matches, token) ==
  Cardinality({i \in 1..Len(matches) : matches[i].result = token})

\* Mutant of getSeriesResult: a tie counts as a win.
getSeriesResult_TieWins(series) ==
  IF CountResult(series.matches, "win") >= CountResult(series.matches, "loss")
  THEN "Win"
  ELSE "Loss"

getSeriesResult(series) ==
  LET wins == CountResult(series.matches, "win")
      losses == CountResult(series.matches, "loss")
  IN IF wins > losses THEN "Win"
     ELSE IF losses > wins THEN "Loss"
     ELSE "Draw"

\* sort((a, b) => new Date(b.date) - new Date(a.date)): stable, latest first
RECURSIVE InsertByDateDesc(_, _)
InsertByDateDesc(sorted, x) ==
  IF sorted = <<>> THEN <<x>>
  ELSE IF DateBefore(Head(sorted).date, x.date) THEN <<x>> \o sorted
  ELSE <<Head(sorted)>> \o InsertByDateDesc(Tail(sorted), x)

\* Mutant of SortByDateDesc: the list is left in the order it has.
SortByDateDesc_Unsorted(s) == s

RECURSIVE SortByDateDesc(_)
SortByDateDesc(s) ==
  IF s = <<>> THEN <<>>
  ELSE InsertByDateDesc(SortByDateDesc(SubSeq(s, 1, Len(s) - 1)), s[Len(s)])

\* slice(0, 10)
Slice(s, n) == SubSeq(s, 1, IF Len(s) < n THEN Len(s) ELSE n)

RecentEntry(series) ==
  [id |-> series.id,
   date |-> series.date,
   maps |-> [i \in 1..Len(series.matches) |->
               [map |-> series.matches[i].map,
                result |-> series.matches[i].result,
                score |-> series.matches[i].score]],
   seriesResult |-> getSeriesResult(series),
   ourPlayers |-> series.ourPlayers,
   totalOurPlayers |-> series.totalOurPlayers]

RECURSIVE SumMatches(_)
SumMatches(series) ==
  IF series = <<>> THEN 0 ELSE Len(Head(series).matches) + SumMatches(Tail(series))

\* The object getTeamStats returns; `to` is the clock when it is built.
Report(kept, to) ==
  LET recent == Slice(SortByDateDesc(kept), RecentLimit) IN
  [team |-> [id |-> TeamData.team_id, name |-> TeamData.name, avatar |-> TeamData.avatar],
   period |-> [from |-> toISOString(threeMonthsAgo), to |-> toISOString(to)],
   players |-> [i \in 1..Len(players) |-> players[i].nickname],
   totalSeries |-> Len(kept),
   totalMatches |-> SumMatches(kept),
   mapStatistics |-> analyzeMapStatisticsFromSeries(kept),
   recentSeries |-> [i \in 1..Len(recent) |-> RecentEntry(recent[i])],
   debug |-> [allMatchesFound |-> Len(allMatches),
              seriesFound |-> Len(seriesMap),
              teamSeriesFound |-> Len(kept)]]

\* Seconds the run may have taken when the report is built.
Elapsed == {0, 1}

\* groupMatchesIntoSeries has returned: the loop that fills teamSeries.
FilterStep ==
  /\ pc = "filter"
  /\ teamSeries' = FilterTeamSeries(seriesMap, teamPlayerNames)
  /\ pc' = "compose"
  /\ UNCHANGED <<response, players, pIdx, offset, hasMoreMatches, matchesData,
                 allMatches, gIdx, seriesMap, frame, teamResponse, issued, failedNow>>
  /\ UNCHANGED <<failedIds, session>>

\* Statistics, the report, and the handler's res.status(200).json(teamStats).
\* teamSeries.sort() sorts teamSeries in place.
ComposeStep ==
  /\ pc = "compose"
  /\ \E elapsed \in Elapsed :
       response' = [status |-> 200, body |-> Report(teamSeries, RunStart + elapsed)]
  /\ teamSeries' = SortByDateDesc(teamSeries)
  /\ pc' = "done"
  /\ UNCHANGED <<players, pIdx, offset, hasMoreMatches, matchesData, allMatches,
                 gIdx, seriesMap, frame, teamResponse, issued, failedNow>>
  /\ UNCHANGED <<failedIds, session>>

Next ==
  \/ TeamLookup
  \/ HistoryRequest
  \/ HistoryProcess
  \/ HistoryDelay
  \/ GetMatchDetails
  \/ GetSeriesDetails
  \/ GetMemberDetails
  \/ GroupDelay
  \/ FilterStep
  \/ ComposeStep

Spec == Init /\ [][Next]_vars

(***************************************************************************)
(* The team filter and the result composer on their own: the state right   *)
(* after groupMatchesIntoSeries has returned (SpecFilter) and right after  *)
(* teamSeries has been filled (SpecStats), for bounded lists of series.    *)
(***************************************************************************)
AfterGrouping ==
  /\ response = NoResponse
  /\ players = PlayersOf(TeamData)
  /\ pIdx = Len(TeamData.members) + 1
  /\ offset = 0
  /\ hasMoreMatches = TRUE
  /\ matchesData = NoData
  /\ allMatches = <<>>
  /\ gIdx = 1
  /\ frame = NoFrame
  /\ teamResponse = [status |-> 200]
  /\ issued = {"team", "history"}
  /\ failedNow = {}
  /\ failedIds = {}
  /\ session = FirstRun(AnyUpstream)

SeqsUpTo(S, n) == UNION {[1..k -> S] : k \in 0..n}

\* At most two series: the first `cut` matches of a list, and the rest.
SplitSeries(flat, cut) ==
  LET at == IF cut > Len(flat) THEN Len(flat) ELSE cut
      first == SubSeq(flat, 1, at)
      second == SubSeq(flat, at + 1, Len(flat))
      one == IF first = <<>> THEN <<>>
             ELSE <<[id |-> "s1", date |-> first[1].date, matches |-> first]>>
      two == IF second = <<>> THEN <<>>
             ELSE <<[id |-> "s2", date |-> second[1].date, matches |-> second]>>
  IN one \o two

\* A match of a series as the filter reads it: a summary, which may also
\* carry the team structure of a match record.
FilterMatch(m, withTeams) ==
  LET summary == Standalone(StoredMatch(HistoryItem(m))).matches[1] IN
  IF withTeams
  THEN [f \in DOMAIN summary \cup {"teams"} |->
          IF f = "teams" THEN Teams(m) ELSE summary[f]]
  ELSE summary

FilterMatches == {FilterMatch(m, TRUE) : m \in MatchIds} \cup {FilterMatch("m1", FALSE)}

InitFilter ==
  /\ pc = "filter"
  /\ seriesMap \in {SplitSeries(flat, cut) :
                      flat \in SeqsUpTo(FilterMatches, MaxInputMatches), cut \in 0..MaxInputMatches}
  /\ teamSeries = <<>>
  /\ AfterGrouping

SpecFilter == InitFilter /\ [][FilterStep]_vars

StatMaps == {"de_dust2", "de_mirage", "Unknown"}
StatTokens == {"win", "loss", "faction1"}

StatMatches ==
  {[id |-> "m1", date |-> toISOString(FirstCutoff + Day), map |-> mp,
    result |-> r, score |-> <<>>] : mp \in StatMaps, r \in StatTokens}

\* A series as the filter keeps it.
Kept(series) ==
  KeptSeries(series, [i \in 1..Len(TeamData.members) |-> TeamData.members[i].nickname])

InitStats ==
  /\ pc = "compose"
  /\ seriesMap = <<>>
  /\ teamSeries \in {[i \in 1..Len(SplitSeries(flat, cut)) |-> Kept(SplitSeries(flat, cut)[i])] :
                       flat \in SeqsUpTo(StatMatches, MaxInputMatches), cut \in 0..MaxInputMatches}
  /\ AfterGrouping

SpecStats == InitStats /\ [][ComposeStep]_vars

(***************************************************************************)
(* getMapName on its own: one collected match with every shape of voting   *)
(* data, at the detail request that makes it a single-match series.        *)
(***************************************************************************)
Guids ==
  {<<"d", "e", "_", "n", "u", "k", "e", "_", "7">>,
   <<"d", "e", "_", "n", "u", "k", "e">>,
   <<"c", "s", "_", "o", "f", "f", "i", "c", "e", "_", "2">>,
   <<"x", "_", "d", "e", "_", "y">>}

\* The first map entity: with a name, a guid, both or neither.
Entities ==
  {[none |-> TRUE], [name |-> "de_mirage"]}
  \cup {[guid |-> g] : g \in Guids}
  \cup {[name |-> "de_mirage", guid |-> g] : g \in Guids}

EntityLists == {<<>>} \cup {<<e>> : e \in Entities} \cup {<<e, [name |-> "de_train"]>> : e \in Entities}

Picks == {<<>>, <<"de_dust2">>, <<"de_inferno", "de_nuke">>}

VotingShapes ==
  {[none |-> TRUE], [map |-> [none |-> TRUE]]}
  \cup {[map |-> [pick |-> p]] : p \in Picks}
  \cup {[map |-> [entities |-> es]] : es \in EntityLists}
  \cup {[map |-> [pick |-> p, entities |-> es]] : p \in Picks, es \in EntityLists}

\* The collected match m1 with the voting data v.
VotedMatch(v) == [StoredMatch(HistoryItem("m1")) EXCEPT !.voting = v]

InitMapName ==
  /\ pc = "group"
  /\ response = NoResponse
  /\ players = PlayersOf(TeamData)
  /\ pIdx = Len(TeamData.members) + 1
  /\ offset = 0
  /\ hasMoreMatches = TRUE
  /\ matchesData = NoData
  /\ allMatches \in {<<VotedMatch(v)>> : v \in VotingShapes}
  /\ gIdx = 1
  /\ seriesMap = <<>>
  /\ frame = NoFrame
  /\ teamSeries = <<>>
  /\ teamResponse = [status |-> 200]
  /\ issued = {"team", "history"}
  /\ failedNow = {}
  /\ failedIds = {}
  /\ session = FirstRun(AnyUpstream)

SpecMapName == InitMapName /\ [][GetMatchDetails]_vars

(***************************************************************************)
(* The result composer on lists longer than the recentSeries limit: kept   *)
(* series of one match each, with one of two dates.                        *)
(***************************************************************************)
RecentDates == {FirstCutoff + Day, FirstCutoff + 2 * Day}

SeriesNames ==
  <<"k1", "k2", "k3", "k4", "k5", "k6", "k7", "k8", "k9", "k10", "k11", "k12", "k13", "k14">>

RecentSeries(dates) ==
  [i \in 1..Len(dates) |->
     Kept([id |-> SeriesNames[i],
           date |-> toISOString(dates[i]),
           matches |-> <<[id |-> "m1", date |-> toISOString(dates[i]), map |-> "de_dust2",
                          result |-> "win", score |-> <<>>]>>])]

InitRecent ==
  /\ pc = "compose"
  /\ seriesMap = <<>>
  /\ teamSeries \in {RecentSeries(dates) : dates \in SeqsUpTo(RecentDates, MaxKeptSeries)}
  /\ AfterGrouping

SpecRecent == InitRecent /\ [][ComposeStep]_vars

(***************************************************************************)
(* Two requests to the handler, one after the other, against a service     *)
(* whose data does not change.                                             *)
(***************************************************************************)
Page(ids) == [items |-> [i \in 1..Len(ids) |-> HistoryItem(ids[i])]]

PageWithEnd(ids, end) == [items |-> Page(ids).items, end |-> end]

\* u1 and u2 have matches (or fail), u4's history request is refused, the
\* others have played nothing.
FixedHistories ==
  {[u \in {"u1", "u2", "u3", "u4", "u5"} |->
      CASE u = "u1" -> h1
        [] u = "u2" -> h2
        [] u = "u4" -> <<Answer("http", NoData)>>
        [] OTHER    -> <<>>] :
     h1 \in {<<Answer("ok", Page(<<"m1", "m2", "m4">>))>>,
             <<Answer("ok", Page(<<"m3", "m1">>))>>,
             <<Answer("http", NoData)>>},
     h2 \in {<<Answer("ok", PageWithEnd(<<"m2", "m3">>, limit))>>,
             <<Answer("ok", Page(<<"m1">>)), Answer("ok", Page(<<"m2", "m4">>))>>,
             <<>>}}

FixedDetails ==
  {[id \in MatchIds \cup SeriesIds |->
      CASE id = "m1" -> d1
        [] id = "m2" -> d2
        [] id = "m3" -> d3
        [] id = "s1" -> ds
        [] OTHER     -> Null] :
     d1 \in {Null, MatchDetails("m1", ""), MatchDetails("m1", "s1")},
     d2 \in {MatchDetails("m2", ""), MatchDetails("m2", "s1")},
     d3 \in {Null, MatchDetails("m3", "s1")},
     ds \in {Null, [match_id |-> "s1", matches |-> <<"m2", "m1">>],
             [match_id |-> "s1", matches |-> <<"m3", "m2", "m1">>]}}

FixedUpstreams ==
  {[team |-> status, history |-> h, details |-> d] :
     status \in {200, 404}, h \in FixedHistories, d \in FixedDetails}

\* Seconds between the start of the first run and the start of the second.
StartGaps == {0, 1}

InitTwice ==
  /\ pc = "start"
  /\ response = NoResponse
  /\ players = <<>>
  /\ pIdx = 1
  /\ offset = 0
  /\ hasMoreMatches = TRUE
  /\ matchesData = NoData
  /\ allMatches = <<>>
  /\ gIdx = 1
  /\ seriesMap = <<>>
  /\ frame = NoFrame
  /\ teamSeries = <<>>
  /\ teamResponse = NoTeamResponse
  /\ issued = {}
  /\ failedNow = {}
  /\ failedIds = {}
  /\ session \in {FirstRun(upstream) : upstream \in FixedUpstreams}

\* The handler has answered and is called again: a new run, with nothing
\* kept from the first but what it answered.
SecondRequest ==
  /\ pc = "done"
  /\ IsFixed
  /\ session.run = 1
  /\ \E gap \in StartGaps :
       session' = [session EXCEPT !.run = 2, !.started = gap, !.first = response]
  /\ pc' = "start"
  /\ response' = NoResponse
  /\ players' = <<>>
  /\ pIdx' = 1
  /\ offset' = 0
  /\ hasMoreMatches' = TRUE
  /\ matchesData' = NoData
  /\ allMatches' = <<>>
  /\ gIdx' = 1
  /\ seriesMap' = <<>>
  /\ frame' = NoFrame
  /\ teamSeries' = <<>>
  /\ teamResponse' = NoTeamResponse
  /\ issued' = {}
  /\ failedNow' = {}
  /\ failedIds' = {}

NextTwice == Next \/ SecondRequest

SpecTwice == InitTwice /\ [][NextTwice]_vars

(***************************************************************************)
(* One run in which every await is eventually resumed (the service answers *)
(* each request, each timer fires), against a service whose histories end: *)
(* a player has at most two pages, with or without an end offset, and any  *)
(* request past them brings no items.                                      *)
(***************************************************************************)
LivePages ==
  {Page(<<"m1", "m2", "m4">>), Page(<<"m3", "m1">>), Page(<<"m2">>),
   PageWithEnd(<<"m2", "m3">>, limit), PageWithEnd(<<"m1">>, 2 * limit)}

LiveAnswers ==
  {Answer("http", NoData), Answer("network", NoData),
   Answer("ok", [items |-> <<>>]), Answer("ok", [end |-> 0])}
  \cup {Answer("ok", p) : p \in LivePages}

LiveHistories ==
  {[u \in {"u1", "u2", "u3", "u4", "u5"} |->
      CASE u = "u1" -> h1
        [] u = "u2" -> h2
        [] u = "u4" -> <<Answer("http", NoData)>>
        [] OTHER    -> <<>>] :
     h1 \in {<<>>} \cup {<<a>> : a \in LiveAnswers}
            \cup {<<Answer("ok", p), a>> : p \in LivePages, a \in LiveAnswers},
     h2 \in {<<>>,
             <<Answer("ok", Page(<<"m3">>)),
               Answer("ok", PageWithEnd(<<"m1", "m2">>, limit))>>,
             <<Answer("ok", Page(<<"m2", "m4">>))>>}}

LiveDetails ==
  {d \in FixedDetails :
     /\ d["m2"] = MatchDetails("m2", "s1")
     /\ d["m3"] = MatchDetails("m3", "s1")
     /\ d["m1"] \in {Null, MatchDetails("m1", "s1")}
     /\ d["s1"] = [match_id |-> "s1", matches |-> <<"m3", "m2", "m1">>]}

LiveUpstreams ==
  {[team |-> 200, history |-> h, details |-> d] :
     h \in LiveHistories, d \in LiveDetails}
  \cup {[team |-> 404, history |-> h, details |-> d] :
          h \in {g \in LiveHistories : g["u1"] = <<>>}, d \in LiveDetails}

InitLive ==
  /\ pc = "start"
  /\ response = NoResponse
  /\ players = <<>>
  /\ pIdx = 1
  /\ offset = 0
  /\ hasMoreMatches = TRUE
  /\ matchesData = NoData
  /\ allMatches = <<>>
  /\ gIdx = 1
  /\ seriesMap = <<>>
  /\ frame = NoFrame
  /\ teamSeries = <<>>
  /\ teamResponse = NoTeamResponse
  /\ issued = {}
  /\ failedNow = {}
  /\ failedIds = {}
  /\ session \in {FirstRun(upstream) : upstream \in LiveUpstreams}

SpecLive == InitLive /\ [][Next]_vars /\ WF_vars(Next)


(***************************************************************************)
(* Claims.                                                                 *)
(***************************************************************************)
Ids(map) == {map[i].id : i \in 1..Len(map)}

RECURSIVE PlacedIds(_)
PlacedIds(map) ==
  IF map = <<>> THEN <<>>
  ELSE [j \in 1..Len(Head(map).matches) |-> Head(map).matches[j].id] \o PlacedIds(Tail(map))

\* C1: when groupMatchesIntoSeries returns, every match id of the match
\* collection is in the matches of at least one returned Series.
C1_NoLoss ==
  pc = "filter" => \A id \in Ids(allMatches) : id \in Range(PlacedIds(seriesMap))

\* C2: when groupMatchesIntoSeries returns, no match id occurs in two Series
\* nor twice in one.
C2_NoOverlap ==
  pc = "filter" =>
    \A i, j \in 1..Len(PlacedIds(seriesMap)) :
      i # j => PlacedIds(seriesMap)[i] # PlacedIds(seriesMap)[j]

\* The roster nicknames in any team's player list of the collected matches
\* that make up a series.
RosterNicknamesOf(series) ==
  {nick \in {TeamData.members[i].nickname : i \in 1..Len(TeamData.members)} :
     \E j \in 1..Len(series.matches) : \E k \in 1..Len(allMatches) :
       /\ allMatches[k].id = series.matches[j].id
       /\ \E t \in 1..Len(allMatches[k].teams) :
            /\ Has(allMatches[k].teams[t], "players")
            /\ \E q \in 1..Len(allMatches[k].teams[t].players) :
                 allMatches[k].teams[t].players[q].nickname = nick}

\* C3: after the filter, a reconstructed Series across whose matches at least
\* five distinct roster nicknames appear is kept, with ourPlayers that set
\* of nicknames and totalOurPlayers its size.
C3_OurPlayersAcrossSeries ==
  pc = "compose" =>
    \A i \in 1..Len(seriesMap) :
      Cardinality(RosterNicknamesOf(seriesMap[i])) >= 5 =>
        \E k \in 1..Len(teamSeries) :
          /\ teamSeries[k].id = seriesMap[i].id
          /\ Range(teamSeries[k].ourPlayers) = RosterNicknamesOf(seriesMap[i])
          /\ teamSeries[k].totalOurPlayers = Cardinality(RosterNicknamesOf(seriesMap[i]))

\* C4: every Series the filter keeps has totalOurPlayers >= 5, totalOurPlayers
\* the number of distinct nicknames in ourPlayers, and only roster nicknames
\* in ourPlayers.
C4_KeptSeries ==
  \A k \in 1..Len(teamSeries) :
    /\ teamSeries[k].totalOurPlayers >= 5
    /\ teamSeries[k].totalOurPlayers = Cardinality(Range(teamSeries[k].ourPlayers))
    /\ teamSeries[k].totalOurPlayers = Len(teamSeries[k].ourPlayers)
    /\ Range(teamSeries[k].ourPlayers)
         \subseteq {TeamData.members[i].nickname : i \in 1..Len(TeamData.members)}

\* A two-match series is kept whose five roster nicknames come from both
\* matches together, next to a series that is dropped.
C4_Witness ==
  /\ pc = "compose"
  /\ Len(seriesMap) = 2
  /\ Len(teamSeries) = 1
  /\ Len(teamSeries[1].matches) = 2
  /\ teamSeries[1].matches[1].id = "m1"
  /\ teamSeries[1].matches[2].id = "m2"
  /\ teamSeries[1].totalOurPlayers = 5

\* C5: the match collection never holds two entries with one id, nor an
\* entry that finished before the cutoff.
C5_Collection ==
  /\ \A i, j \in 1..Len(allMatches) : i # j => allMatches[i].id # allMatches[j].id
  /\ \A i \in 1..Len(allMatches) : allMatches[i].finished_at >= NowSeconds - 90 * Day

\* The second player's page repeats m1, brings m3 (exactly at the cutoff) and
\* ends with m4 (before the cutoff).
C5_Witness ==
  /\ pc = "hdelay"
  /\ pIdx = 2
  /\ [i \in 1..Len(ItemsOf(matchesData)) |-> matchesData.items[i].match_id] = <<"m3", "m1", "m4">>
  /\ [i \in 1..Len(allMatches) |-> allMatches[i].id] = <<"m1", "m3">>

OlderThanCutoff(item) == item.finished_at < NowSeconds - 90 * Day

HasOlder(items) == \E i \in 1..Len(items) : OlderThanCutoff(items[i])

\* The ids of the items before the first one older than the cutoff.
IdsBeforeOlder(items) ==
  {items[i].match_id : i \in {i \in 1..Len(items) : \A j \in 1..i : ~OlderThanCutoff(items[j])}}

\* C6: processing a page that holds a match older than the cutoff adds to the
\* collection exactly the ids of the items before it, and ends the player's
\* pagination: after the delay the loop is at the next player, and the
\* player index never goes back.
C6_CutoffStopsPagination ==
  /\ [][(pc = "page" /\ HasOlder(ItemsOf(matchesData))) =>
          /\ Ids(allMatches') = Ids(allMatches) \cup IdsBeforeOlder(matchesData.items)
          /\ pc' = "hdelay"
          /\ pIdx' = pIdx]_vars
  /\ [][(pc = "hdelay" /\ HasOlder(ItemsOf(matchesData))) =>
          /\ pIdx' = pIdx + 1
          /\ allMatches' = allMatches]_vars
  /\ [][pIdx' >= pIdx]_vars

\* The first player's only page: two matches inside the window, then an older one.
C6_Witness ==
  /\ pc = "hdelay"
  /\ pIdx = 1
  /\ offset = limit
  /\ [i \in 1..Len(ItemsOf(matchesData)) |-> matchesData.items[i].match_id] = <<"m1", "m2", "m4">>
  /\ Len(allMatches) = 2

\* C7: a history page request, whatever its outcome, does not end the run,
\* loses no collected match, and the run of a team whose lookup succeeded
\* ends with a Report.
C7_HistoryFailureNotFatal ==
  /\ [][pc = "history" =>
          /\ pc' # "done"
          /\ response' = NoResponse
          /\ allMatches' = allMatches]_vars
  /\ [](pc = "done" /\ teamResponse.status = 200 => response.status = 200)

\* C8: when the detail request for the current match, or for its parent
\* series, has failed, the iteration ends with the match as a single-match
\* Series under its own id.
C8_DetailFailureStandalone ==
  (pc = "gdelay" /\ (allMatches[gIdx].id \in failedNow \/ failedNow \cap SeriesIds # {})) =>
    \E i \in 1..Len(seriesMap) :
      /\ seriesMap[i].id = allMatches[gIdx].id
      /\ Len(seriesMap[i].matches) = 1
      /\ seriesMap[i].matches[1].id = allMatches[gIdx].id

\* C9: after a team lookup answered with a non-2xx status the run is over, the
\* handler has answered with the error payload whose details carry that
\* status, and no history or detail request has been sent.
C9_TeamLookupFailureAborts ==
  (teamResponse.status # 0 /\ (teamResponse.status < 200 \/ teamResponse.status > 299)) =>
    /\ pc = "done"
    /\ response.status = 500
    /\ response.body.error = "Failed to fetch team statistics"
    /\ response.body.details.message = "FACEIT API error: "
    /\ Has(response.body.details, "status")
    /\ response.body.details.status = teamResponse.status
    /\ issued = {"team"}
    /\ allMatches = <<>> /\ seriesMap = <<>> /\ teamSeries = <<>>

C9_Witness ==
  /\ pc = "done"
  /\ teamResponse.status = 404
  /\ response.status = 500
  /\ response.body.details.status = 404

\* C10: in every report, each mapStatistics entry has wins + losses <=
\* totalMatches and 0 <= winRate <= 100, and none is named "Unknown".
C10_MapStatBounds ==
  (pc = "done" /\ response.status = 200) =>
    \A i \in 1..Len(response.body.mapStatistics) :
      LET e == response.body.mapStatistics[i] IN
      /\ e.wins + e.losses <= e.totalMatches
      /\ 0 <= e.winRate /\ e.winRate <= 100
      /\ e.map # "Unknown"

\* Two matches on one map, one won and one with a raw winner token (50 %),
\* in a report built from series that also hold a match on "Unknown".
C10_Witness ==
  /\ pc = "done"
  /\ response.status = 200
  /\ \E i \in 1..Len(response.body.mapStatistics) :
       LET e == response.body.mapStatistics[i] IN
       e.totalMatches = 2 /\ e.wins = 1 /\ e.losses = 0 /\ e.winRate = 50
  /\ \E k \in 1..Len(teamSeries) : \E j \in 1..Len(teamSeries[k].matches) :
       teamSeries[k].matches[j].map = "Unknown"

\* The positions <<series, match>> of the kept series' matches on a map
\* whose result token is in a set.
KeptOnMap(mp, tokens) ==
  {pos \in UNION {{<<k, j>> : j \in 1..Len(teamSeries[k].matches)} : k \in 1..Len(teamSeries)} :
     /\ teamSeries[pos[1]].matches[pos[2]].map = mp
     /\ teamSeries[pos[1]].matches[pos[2]].result \in tokens}

KeptMaps ==
  UNION {{teamSeries[k].matches[j].map : j \in 1..Len(teamSeries[k].matches)} :
           k \in 1..Len(teamSeries)} \ {"Unknown"}

\* C11: the report has exactly one mapStatistics entry per map name other
\* than "Unknown" among the kept matches and no other entry; its totalMatches
\* counts the matches on that map, wins those with token "win", losses those
\* with token "loss", and winRate is wins / totalMatches * 100 rounded to
\* the nearest integer, halves up.
C11_MapStatCounts ==
  (pc = "done" /\ response.status = 200) =>
    LET stats == response.body.mapStatistics IN
    /\ \A mp \in KeptMaps : Cardinality({i \in 1..Len(stats) : stats[i].map = mp}) = 1
    /\ \A i \in 1..Len(stats) :
         LET e == stats[i] IN
         /\ e.map \in KeptMaps
         /\ e.totalMatches = Cardinality(KeptOnMap(e.map, StatTokens))
         /\ e.wins = Cardinality(KeptOnMap(e.map, {"win"}))
         /\ e.losses = Cardinality(KeptOnMap(e.map, {"loss"}))
         /\ 2 * e.winRate * e.totalMatches <= 200 * e.wins + e.totalMatches
         /\ 200 * e.wins + e.totalMatches < 2 * (e.winRate + 1) * e.totalMatches

\* Three matches on one map, two of them won: 67 %.
C11_Witness ==
  /\ pc = "done"
  /\ response.status = 200
  /\ \E i \in 1..Len(response.body.mapStatistics) :
       LET e == response.body.mapStatistics[i] IN
       e.totalMatches = 3 /\ e.wins = 2 /\ e.winRate = 67

\* The matches of a list of series, in the order the statistics scan them.
RECURSIVE ScanOrder(_)
ScanOrder(series) ==
  IF series = <<>> THEN <<>> ELSE Head(series).matches \o ScanOrder(Tail(series))

\* Position of the first scanned match on a map.
FirstSeen(series, mp) ==
  CHOOSE n \in 1..Len(ScanOrder(series)) :
    /\ ScanOrder(series)[n].map = mp
    /\ \A q \in 1..(n - 1) : ScanOrder(series)[q].map # mp

\* C12: the mapStatistics of the report built from the kept series is in
\* descending order of totalMatches, and of two entries with the same
\* totalMatches the one whose map was scanned first comes first.
C12_MapStatOrder ==
  [][pc = "compose" =>
       LET stats == response'.body.mapStatistics IN
       \A i, j \in 1..Len(stats) :
         i < j =>
           /\ stats[i].totalMatches >= stats[j].totalMatches
           /\ stats[i].totalMatches = stats[j].totalMatches =>
                FirstSeen(teamSeries, stats[i].map) < FirstSeen(teamSeries, stats[j].map)]_vars

\* Three kept matches, on "Unknown", de_mirage and de_dust2 in that order:
\* two entries with one match each, de_mirage first.
C12_Witness ==
  /\ pc = "done"
  /\ response.status = 200
  /\ Len(ScanOrder(teamSeries)) = 3
  /\ ScanOrder(teamSeries)[1].map = "Unknown"
  /\ Len(response.body.mapStatistics) = 2
  /\ response.body.mapStatistics[1].map = "de_mirage"
  /\ response.body.mapStatistics[2].map = "de_dust2"
  /\ response.body.mapStatistics[1].totalMatches = response.body.mapStatistics[2].totalMatches

\* C13: recentSeries has at most 10 entries, latest date first; its entries
\* are kept series, as many as there are up to 10, and no kept series left
\* out has a later date than one that is in.
C13_RecentSeries ==
  (pc = "done" /\ response.status = 200) =>
    LET recent == response.body.recentSeries
        recentIds == {recent[i].id : i \in 1..Len(recent)}
    IN
    /\ Len(recent) <= 10
    /\ Len(recent) = IF Len(teamSeries) < 10 THEN Len(teamSeries) ELSE 10
    /\ \A i, j \in 1..Len(recent) : i < j => ~DateBefore(recent[i].date, recent[j].date)
    /\ \A i, j \in 1..Len(recent) : i # j => recent[i].id # recent[j].id
    /\ \A i \in 1..Len(recent) :
         \E k \in 1..Len(teamSeries) :
           teamSeries[k].id = recent[i].id /\ teamSeries[k].date = recent[i].date
    /\ \A k \in 1..Len(teamSeries) :
         teamSeries[k].id \notin recentIds =>
           \A i \in 1..Len(recent) : ~DateBefore(recent[i].date, teamSeries[k].date)

\* Eleven kept series, the first two older than the other nine: the nine come
\* first, then the first one, and the second one is left out.
C13_Witness ==
  /\ pc = "done"
  /\ response.status = 200
  /\ Len(teamSeries) = 11
  /\ Len(response.body.recentSeries) = 10
  /\ DateBefore(response.body.recentSeries[10].date, response.body.recentSeries[1].date)
  /\ response.body.recentSeries[1].id = "k3"
  /\ response.body.recentSeries[10].id = "k1"
  /\ \A i \in 1..10 : response.body.recentSeries[i].id # "k2"

\* A report with period.to left out.
WithoutTo(answer) ==
  IF answer.status = 200
  THEN [answer EXCEPT !.body.period = [from |-> answer.body.period.from]]
  ELSE answer

TokenCount(series, token) ==
  Cardinality({j \in 1..Len(series.matches) : series.matches[j].result = token})

\* C15: the seriesResult reported for a kept series is "Win" when more of its
\* matches carry "win" than "loss", "Loss" when more carry "loss" than "win",
\* and "Draw" when as many carry the one as the other.
C15_SeriesResult ==
  (pc = "done" /\ response.status = 200) =>
    \A i \in 1..Len(response.body.recentSeries) :
      \E k \in 1..Len(teamSeries) :
        /\ teamSeries[k].id = response.body.recentSeries[i].id
        /\ LET wins == TokenCount(teamSeries[k], "win")
               losses == TokenCount(teamSeries[k], "loss")
               result == response.body.recentSeries[i].seriesResult
           IN /\ wins > losses => result = "Win"
              /\ losses > wins => result = "Loss"
              /\ wins = losses => result = "Draw"

\* A series of a won match and one with a raw winner token is a "Win"; a
\* series of one match with a raw winner token is a "Draw".
C15_Witness ==
  /\ pc = "done"
  /\ response.status = 200
  /\ Len(response.body.recentSeries) = 2
  /\ Len(response.body.recentSeries[1].maps) = 2
  /\ response.body.recentSeries[1].seriesResult = "Win"
  /\ Len(response.body.recentSeries[2].maps) = 1
  /\ response.body.recentSeries[2].maps[1].result = "faction1"
  /\ response.body.recentSeries[2].seriesResult = "Draw"

\* C16: a match or series detail request is never followed by another detail
\* request without the delay in between.
C16_DelayBetweenDetailLookups ==
  [][(pc \in {"group", "series", "member"}) => (pc' \notin {"group", "series", "member"})]_vars

\* C17: a history page request is never followed by another history page
\* request, of the same player or the next, without the delay in between.
C17_DelayBetweenPageRequests ==
  /\ [][(pc = "history") => (pc' # "history")]_vars
  /\ [][(pc = "page") => (pc' # "history")]_vars

\* C18: a Series stored under a parent identifier holds only matches of the
\* match collection, in ascending order of finish time, and its date is the
\* date of the earliest of them.
C18_ParentSeries ==
  \A i \in 1..Len(seriesMap) :
    seriesMap[i].id \in SeriesIds =>
      LET matches == seriesMap[i].matches IN
      /\ Len(matches) > 0
      /\ \A j \in 1..Len(matches) : matches[j].id \in Ids(allMatches)
      /\ \A j, k \in 1..Len(matches) :
           j < k => /\ FinishedAt(matches[j].id) <= FinishedAt(matches[k].id)
                    /\ ~DateBefore(matches[k].date, matches[j].date)
      /\ \A j \in 1..Len(matches) : ~DateBefore(matches[j].date, seriesMap[i].date)
      /\ \E j \in 1..Len(matches) : matches[j].date = seriesMap[i].date

\* Of three collected matches, m2 and m1 make up the series s1, the earlier
\* m2 first; the series has m2's date.
C18_Witness ==
  /\ pc = "filter"
  /\ Len(allMatches) = 3
  /\ \E i \in 1..Len(seriesMap) :
       /\ seriesMap[i].id = "s1"
       /\ [j \in 1..Len(seriesMap[i].matches) |-> seriesMap[i].matches[j].id] = <<"m2", "m1">>
       /\ seriesMap[i].date = toISOString(FinishedAt("m2"))

\* The id of the detail request the run is about to send, if it is at one.
NextDetailRequest ==
  CASE pc = "group"  -> {allMatches[gIdx].id}
    [] pc = "series" -> {frame.seriesId}
    [] pc = "member" -> {Head(frame.keys)}
    [] OTHER         -> {}

\* C19: no request that has failed is sent again in the run: after a history
\* page request that brought no page the run is over or at the next player,
\* the player index never goes back and a player's offset only grows, and
\* no detail request is sent for an id whose detail request has failed.
C19_NoRetry ==
  /\ [][(pc = "history" /\ pc' # "page") => (pc' = "done" \/ pIdx' = pIdx + 1)]_vars
  /\ [][pIdx' >= pIdx]_vars
  /\ [][(pc' = "history" /\ pIdx' = pIdx) => offset' >= offset]_vars
  /\ [][(pc = "hdelay" /\ pc' = "history" /\ pIdx' = pIdx) => offset > 0]_vars
  /\ [](NextDetailRequest \cap failedIds = {})

\* The voting data of a match, field by field; an absent field is empty.
VotedMap(match) ==
  IF Has(match, "voting") /\ Has(match.voting, "map") THEN match.voting.map ELSE [none |-> TRUE]

FirstPick(match) ==
  IF Has(VotedMap(match), "pick") /\ Len(VotedMap(match).pick) > 0
  THEN <<VotedMap(match).pick[1]>> ELSE <<>>

FirstEntity(match) ==
  IF Has(VotedMap(match), "entities") /\ Len(VotedMap(match).entities) > 0
  THEN VotedMap(match).entities[1] ELSE [none |-> TRUE]

Underscores(cs) == Cardinality({i \in 1..Len(cs) : cs[i] = "_"})

\* A guid that starts with de_, cut before its second underscore.
DeToken(cs) ==
  LET n == CHOOSE n \in 0..Len(cs) :
             /\ Underscores(SubSeq(cs, 1, n)) = 1
             /\ n = Len(cs) \/ cs[n + 1] = "_"
  IN SubSeq(cs, 1, n)

StartsWithDe(cs) == Len(cs) >= 3 /\ SubSeq(cs, 1, 3) = <<"d", "e", "_">>

C21_Termination ==
  /\ <>(pc = "done" /\ response.status \in {200, 500})
  /\ \A p \in 1..Len(TeamData.members) :
       (pc \in {"history", "page", "hdelay"} /\ pIdx = p)
         ~> ~(pc \in {"history", "page", "hdelay"} /\ pIdx = p)

\* A run that has paged through a history without an end offset up to the
\* empty page past its last item, and goes on.
C21_Witness ==
  /\ pc = "page"
  /\ offset >= limit
  /\ ItemsOf(matchesData) = <<>>
  /\ ~Has(matchesData, "end")
  /\ Len(allMatches) >= 2

====
